---- MODULE Spec2Model ----
(***************************************************************************)
(* Model of the timelag crate (src/src/lib.rs): the single-series builder  *)
(* lag_matrix and the multi-series builder lag_matrix_2d with its          *)
(* RowMajor and ColumnMajor branches.  A call is modelled step by step:    *)
(* the precondition checks and the allocation, then one action per loop    *)
(* iteration, then the construction of the LagMatrix value.  A slice       *)
(* range outside its slice ends the call with the outcome "Panic".         *)
(* Buffers are 1-based sequences; all offsets keep the code's 0-based      *)
(* values and are shifted by one only where a cell is read or written.     *)
(***************************************************************************)
EXTENDS Integers, Sequences, FiniteSets

VARIABLES pc, fn, data, layout, lags, fill, stride,
          row_stride, lagged, lag, sidx, num_lags, outcome, matrix,
          array, usize_bits, overflow_checks

vars == <<pc, fn, data, layout, lags, fill, stride,
          row_stride, lagged, lag, sidx, num_lags, outcome, matrix,
          array, usize_bits, overflow_checks>>

\* the target's word width and the build's overflow checks never change
target == <<usize_bits, overflow_checks>>

\* ------------------------------------------------------------------ bounds
\* longest data slice passed to a call
MaxLen == 4
\* data values are drawn from 1..MaxVal, fill values from 0..1
MaxVal == 2
\* largest stride argument passed to a call
MaxStride == 6

\* width in bits of the scaled-down usize of SpecWord
WordBits == 4

\* width in bits of usize on the narrowest targets Rust supports
UsizeBits == 16

Values == 1..MaxVal
Fills == 0..1
Strides == 0..MaxStride
\* lags and declared series lengths range one past the longest slice
LagArgs == 0..(MaxLen + 1)
Lengths == 0..(MaxLen + 1)

RECURSIVE SeqsUpTo(_)
SeqsUpTo(n) ==
    IF n = 0 THEN {<<>>}
    ELSE LET shorter == SeqsUpTo(n - 1)
         IN  shorter \cup {Append(q, v) : q \in {p \in shorter : Len(p) = n - 1}, v \in Values}

DataSlices == SeqsUpTo(MaxLen)

Layouts == [kind : {"RowMajor", "ColumnMajor"}, len : Lengths]

NoLayout == [kind |-> "None", len |-> 0]

\* ------------------------------------------------------- slices and copies
\* vec![fill; n]
VecFill(f, n) == [i \in 1..n |-> f]

\* start..end is a legal range of a slice of length len
RangeOk(start, end, len) == start >= 0 /\ start <= end /\ end <= len

\* dst[off..off+n].copy_from_slice(&src[from..from+n])
CopyFromSlice(dst, off, src, from, n) ==
    [i \in 1..Len(dst) |->
        IF i - 1 >= off /\ i - 1 < off + n THEN src[from + (i - 1 - off) + 1]
        ELSE dst[i]]

\* buf.copy_within(from..to, dest)
CopyWithin(buf, from, to, dest) ==
    [i \in 1..Len(buf) |->
        IF i - 1 >= dest /\ i - 1 < dest + (to - from) THEN buf[from + (i - 1 - dest) + 1]
        ELSE buf[i]]

\* a usize computation whose exact value is x stays within the word
Fits(x) == x < 2 ^ usize_bits

\* the value a usize computation with exact value x leaves when it wraps
Wrap(x) == x % (2 ^ usize_bits)

\* the computation with exact value x panics: overflow checks are on (debug
\* builds) and the value does not fit; without them (release builds) it wraps
Checked(x) == overflow_checks /\ ~Fits(x)

\* MatrixLayout::len
LayoutLen(l) == l.len

\* LagMatrix::default-like placeholder while no result exists
NoMatrix ==
    [data |-> <<>>, num_rows |-> 0, num_cols |-> 0, series_length |-> 0,
     series_count |-> 0, num_lags |-> 0, row_stride |-> 0, row_major |-> FALSE]

\* placeholder while no Array2 has been built
NoArray == [status |-> "none", rows |-> 0, cols |-> 0, row_step |-> 0, col_step |-> 0]

\* ------------------------------------------------------------- lag_matrix
\* lag_matrix with the lag bound checked before the empty-data check
LagMatrixErrorLagsFirst(d, l, st) ==
    IF l = 0 THEN "InvalidLags"
    ELSE IF l > Len(d) THEN "LagExceedsValueCount"
    ELSE IF Len(d) = 0 THEN "EmptyData"
    ELSE IF (IF st = 0 THEN Len(d) ELSE st) < Len(d) THEN "InvalidStride"
    ELSE "Ok"

\* lag_matrix with `lags >= data_rows` in place of `lags > data_rows`
LagMatrixErrorLagsInclusive(d, l, st) ==
    IF l = 0 THEN "InvalidLags"
    ELSE IF Len(d) = 0 THEN "EmptyData"
    ELSE IF l >= Len(d) THEN "LagExceedsValueCount"
    ELSE IF (IF st = 0 THEN Len(d) ELSE st) < Len(d) THEN "InvalidStride"
    ELSE "Ok"

\* lag_matrix with `stride <= data_rows` in place of `stride < data_rows`
LagMatrixErrorStrideInclusive(d, l, st) ==
    IF l = 0 THEN "InvalidLags"
    ELSE IF Len(d) = 0 THEN "EmptyData"
    ELSE IF l > Len(d) THEN "LagExceedsValueCount"
    ELSE IF (IF st = 0 THEN Len(d) ELSE st) <= Len(d) THEN "InvalidStride"
    ELSE "Ok"

\* the precondition checks of lag_matrix, in the order of the code
LagMatrixError(d, l, st) ==
    IF l = 0 THEN "InvalidLags"
    ELSE IF Len(d) = 0 THEN "EmptyData"
    ELSE IF l > Len(d) THEN "LagExceedsValueCount"
    ELSE IF (IF st = 0 THEN Len(d) ELSE st) < Len(d) THEN "InvalidStride"
    ELSE "Ok"

\* stride after `if stride == 0 { stride = data_rows }`
LagMatrixStride(d, st) == IF st = 0 THEN Len(d) ELSE st

\* length of the buffer lag_matrix allocates
LagMatrixBufLen(st, l) == st * (l + 1)

\* the offset without the shift by the lag
LagMatrixOffsetNoShift(lg, st) == lg * st

\* the offset with the shift by the lag applied twice
LagMatrixOffsetDoubleShift(lg, st) == lg * st + lg + lg

\* destination offset of the copy for one lag
LagMatrixOffset(lg, st) == lg * st + lg

Init ==
    /\ pc = "idle"
    /\ fn = "none"
    /\ data = <<>>
    /\ layout = NoLayout
    /\ lags = 0
    /\ fill = 0
    /\ stride = 0
    /\ row_stride = 0
    /\ lagged = <<>>
    /\ lag = 0
    /\ sidx = 0
    /\ num_lags = 0
    /\ outcome = "none"
    /\ matrix = NoMatrix
    /\ array = NoArray
    /\ usize_bits = UsizeBits
    /\ overflow_checks \in BOOLEAN

\* lag_matrix up to the loop: checks, allocation, copy of the series to row 0
LagMatrixCall ==
    /\ pc = "idle"
    /\ \E d \in DataSlices, l \in LagArgs, f \in Fills, st \in Strides :
        LET err == LagMatrixError(d, l, st)
            eff == LagMatrixStride(d, st)
            size == LagMatrixBufLen(eff, l)
            buf == VecFill(f, Wrap(size))
        IN  /\ fn' = "lag_matrix"
            /\ data' = d
            /\ lags' = l
            /\ fill' = f
            /\ stride' = st
            /\ layout' = NoLayout
            /\ IF err # "Ok"
               THEN /\ pc' = "done"
                    /\ outcome' = err
                    /\ UNCHANGED <<row_stride, lagged, lag>>
               ELSE IF Checked(size)
               THEN /\ pc' = "done"
                    /\ outcome' = "Panic"
                    /\ row_stride' = eff
                    /\ UNCHANGED <<lagged, lag>>
               ELSE IF ~RangeOk(0, Len(d), Len(buf))
               THEN /\ pc' = "done"
                    /\ outcome' = "Panic"
                    /\ row_stride' = eff
                    /\ lagged' = buf
                    /\ UNCHANGED lag
               ELSE /\ pc' = "lm_loop"
                    /\ outcome' = "none"
                    /\ row_stride' = eff
                    /\ lagged' = CopyFromSlice(buf, 0, d, 0, Len(d))
                    /\ lag' = 1
            /\ UNCHANGED <<sidx, num_lags, matrix, array, target>>

\* one iteration of `for lag in 1..=lags`
LagMatrixLoop ==
    /\ pc = "lm_loop"
    /\ lag <= lags
    /\ LET exact_offset == LagMatrixOffset(lag, row_stride)
           lagged_offset == Wrap(exact_offset)
           lagged_rows == Len(data) - lag
           lagged_end == Wrap(exact_offset + lagged_rows)
       IN  IF ~(/\ lagged_rows >= 0
                /\ ~Checked(exact_offset + lagged_rows)
                /\ RangeOk(lagged_offset, lagged_end, Len(lagged))
                /\ RangeOk(0, lagged_rows, Len(data)))
           THEN /\ pc' = "done"
                /\ outcome' = "Panic"
                /\ UNCHANGED <<lagged, lag, num_lags>>
           ELSE /\ lagged' = CopyFromSlice(lagged, lagged_offset, data, 0, lagged_rows)
                /\ lag' = lag + 1
                /\ num_lags' = num_lags + 1
                /\ UNCHANGED <<pc, outcome>>
    /\ UNCHANGED <<fn, data, layout, lags, fill, stride, row_stride, sidx, matrix, array, target>>

\* the LagMatrix value lag_matrix returns
LagMatrixReturn ==
    /\ pc = "lm_loop"
    /\ lag > lags
    /\ pc' = "done"
    /\ outcome' = "Ok"
    /\ matrix' = [data |-> lagged,
                  num_rows |-> Len(data),
                  num_cols |-> num_lags + 1,
                  series_length |-> Len(data),
                  series_count |-> 1,
                  num_lags |-> num_lags + 1,
                  row_stride |-> row_stride,
                  row_major |-> TRUE]
    /\ UNCHANGED <<fn, data, layout, lags, fill, stride, row_stride, lagged, lag, sidx, num_lags>>
    /\ UNCHANGED <<array, target>>

\* the loop `for lag in 1..=lags` of lag_matrix run to its end from lag lg
RECURSIVE LagMatrixRows(_, _, _, _, _)
LagMatrixRows(buf, d, l, st, lg) ==
    IF lg > l THEN [ok |-> TRUE, buf |-> buf]
    ELSE LET exact_offset == LagMatrixOffset(lg, st)
             lagged_offset == Wrap(exact_offset)
             lagged_rows == Len(d) - lg
             lagged_end == Wrap(exact_offset + lagged_rows)
         IN  IF ~(/\ lagged_rows >= 0
                  /\ ~Checked(exact_offset + lagged_rows)
                  /\ RangeOk(lagged_offset, lagged_end, Len(buf))
                  /\ RangeOk(0, lagged_rows, Len(d)))
             THEN [ok |-> FALSE, buf |-> buf]
             ELSE LagMatrixRows(CopyFromSlice(buf, lagged_offset, d, 0, lagged_rows),
                                d, l, st, lg + 1)

\* lag_matrix as a whole: the outcome and the LagMatrix value of one call
LagMatrixResult(d, l, f, st) ==
    LET err == LagMatrixError(d, l, st)
        eff == LagMatrixStride(d, st)
        size == LagMatrixBufLen(eff, l)
        buf == VecFill(f, Wrap(size))
        run == LagMatrixRows(CopyFromSlice(buf, 0, d, 0, Len(d)), d, l, eff, 1)
    IN  IF err # "Ok" THEN [outcome |-> err, matrix |-> NoMatrix]
        ELSE IF Checked(size) THEN [outcome |-> "Panic", matrix |-> NoMatrix]
        ELSE IF ~RangeOk(0, Len(d), Len(buf)) THEN [outcome |-> "Panic", matrix |-> NoMatrix]
        ELSE IF ~run.ok THEN [outcome |-> "Panic", matrix |-> NoMatrix]
        ELSE [outcome |-> "Ok",
              matrix |-> [data |-> run.buf,
                          num_rows |-> Len(d),
                          num_cols |-> l + 1,
                          series_length |-> Len(d),
                          series_count |-> 1,
                          num_lags |-> l + 1,
                          row_stride |-> eff,
                          row_major |-> TRUE]]

\* ---------------------------------------------------------- lag_matrix_2d
\* num_series = data_matrix.len() / series_length, for series_length > 0
NumSeriesOf(d, lay) == Len(d) \div LayoutLen(lay)

\* lag_matrix_2d with the empty-data check before the lags check
LagMatrix2dErrorEmptyFirst(d, lay, l) ==
    IF Len(d) = 0 THEN "EmptyData"
    ELSE IF l = 0 THEN "InvalidLags"
    ELSE IF l > LayoutLen(lay) THEN "LagExceedsValueCount"
    ELSE IF LayoutLen(lay) = 0 THEN "Panic"
    ELSE IF NumSeriesOf(d, lay) * LayoutLen(lay) # Len(d) THEN "InvalidLength"
    ELSE "Ok"

\* lag_matrix_2d accepting any data longer than one series
LagMatrix2dErrorShortOnly(d, lay, l) ==
    IF l = 0 THEN "InvalidLags"
    ELSE IF Len(d) = 0 THEN "EmptyData"
    ELSE IF l > LayoutLen(lay) THEN "LagExceedsValueCount"
    ELSE IF LayoutLen(lay) = 0 THEN "Panic"
    ELSE IF NumSeriesOf(d, lay) = 0 THEN "InvalidLength"
    ELSE "Ok"

\* lag_matrix_2d with the length check before the lag bound
LagMatrix2dErrorLengthFirst(d, lay, l) ==
    IF l = 0 THEN "InvalidLags"
    ELSE IF Len(d) = 0 THEN "EmptyData"
    ELSE IF LayoutLen(lay) = 0 THEN "Panic"
    ELSE IF NumSeriesOf(d, lay) * LayoutLen(lay) # Len(d) THEN "InvalidLength"
    ELSE IF l > LayoutLen(lay) THEN "LagExceedsValueCount"
    ELSE "Ok"

\* the precondition checks both layouts share, in the order of the code; the
\* division data_matrix.len() / series_length panics on a zero divisor
LagMatrix2dError(d, lay, l) ==
    IF l = 0 THEN "InvalidLags"
    ELSE IF Len(d) = 0 THEN "EmptyData"
    ELSE IF l > LayoutLen(lay) THEN "LagExceedsValueCount"
    ELSE IF LayoutLen(lay) = 0 THEN "Panic"
    ELSE IF NumSeriesOf(d, lay) * LayoutLen(lay) # Len(d) THEN "InvalidLength"
    ELSE "Ok"

\* row_stride after `if row_stride == 0 { row_stride = num_series * lags }`
LagMatrix2dStride(num_series, l, st) == IF st = 0 THEN num_series * l ELSE st

\* the stride checks with the RowMajor bound made strict
StrideTooSmallRowStrict(lay, rs, num_series, l) ==
    IF lay.kind = "RowMajor" THEN rs <= LayoutLen(lay)
    ELSE rs < num_series * l

\* the stride checks with the ColumnMajor bound made strict
StrideTooSmallColumnStrict(lay, rs, num_series, l) ==
    IF lay.kind = "RowMajor" THEN rs < LayoutLen(lay)
    ELSE rs <= num_series * l

\* the stride check of the branch of the layout
StrideTooSmall(lay, rs, num_series, l) ==
    IF lay.kind = "RowMajor" THEN rs < LayoutLen(lay)
    ELSE rs < num_series * l

\* length of the buffer the RowMajor branch allocates
RowMajorBufLen(num_series, rs, l) == num_series * rs * (l + 1)

\* the ColumnMajor buffer with one physical row too many
ColumnMajorBufLenExtraRow(rs, series_length) == rs * (series_length + 1)

\* length of the buffer the ColumnMajor branch allocates
ColumnMajorBufLen(rs, series_length) == rs * series_length

\* the RowMajor offset without the shift by the lag
RowMajorOffsetNoShift(lg, sr, num_series, rs) == lg * num_series * rs + sr * rs

\* destination offset of the copy for one lag and one series (RowMajor)
RowMajorOffset(lg, sr, num_series, rs) == lg * num_series * rs + sr * rs + lg

\* the seed reading the time steps in forward order
SeedDataStartForward(l, lg, num_series) == lg * num_series

\* first source element of the seed copy for one lag (ColumnMajor)
SeedDataStart(l, lg, num_series) == (l - lg) * num_series

\* destination offset of the seed copy for one lag (ColumnMajor)
SeedOffset(series_length, rs, lg, num_series) == (series_length - 1) * rs + lg * num_series

\* the shift copy landing one physical row too low
ShiftOffsetRowBelow(series_length, lg, rs) == (series_length - lg) * rs

\* destination offset of the shift copy for one lag (ColumnMajor)
ShiftOffset(series_length, lg, rs) == (series_length - lg - 1) * rs

series_length == LayoutLen(layout)
num_series == NumSeriesOf(data, layout)

\* lag_matrix_2d up to the loops: checks, stride default, stride check, allocation
LagMatrix2dCall ==
    /\ pc = "idle"
    /\ \E d \in DataSlices, lay \in Layouts, l \in LagArgs, f \in Fills, st \in Strides :
        LET err == LagMatrix2dError(d, lay, l)
            ns == NumSeriesOf(d, lay)
            eff == LagMatrix2dStride(ns, l, st)
            size == IF lay.kind = "RowMajor" THEN RowMajorBufLen(ns, eff, l)
                    ELSE ColumnMajorBufLen(eff, LayoutLen(lay))
        IN  /\ fn' = "lag_matrix_2d"
            /\ data' = d
            /\ layout' = lay
            /\ lags' = l
            /\ fill' = f
            /\ stride' = st
            /\ IF err # "Ok"
               THEN /\ pc' = "done"
                    /\ outcome' = err
                    /\ UNCHANGED <<row_stride, lagged>>
               ELSE IF StrideTooSmall(lay, eff, ns, l)
               THEN /\ pc' = "done"
                    /\ outcome' = "InvalidStride"
                    /\ row_stride' = eff
                    /\ UNCHANGED lagged
               ELSE IF Checked(size)
               THEN /\ pc' = "done"
                    /\ outcome' = "Panic"
                    /\ row_stride' = eff
                    /\ UNCHANGED lagged
               ELSE /\ pc' = IF lay.kind = "RowMajor" THEN "rm_loop" ELSE "cm_seed"
                    /\ outcome' = "none"
                    /\ row_stride' = eff
                    /\ lagged' = VecFill(f, Wrap(size))
            /\ UNCHANGED <<lag, sidx, num_lags, matrix, array, target>>

\* one iteration of the inner loop `for s in 0..num_series` of the RowMajor
\* branch, with the step of the outer loop `for lag in 0..=lags`
RowMajorLoop ==
    /\ pc = "rm_loop"
    /\ lag <= lags
    /\ LET exact_offset == RowMajorOffset(lag, sidx, num_series, row_stride)
           lagged_offset == Wrap(exact_offset)
           lagged_rows == series_length - lag
           lagged_end == Wrap(exact_offset + lagged_rows)
           data_start == sidx * series_length
           data_end == data_start + lagged_rows
       IN  IF ~(/\ lagged_rows >= 0
                /\ ~Checked(exact_offset + lagged_rows)
                /\ RangeOk(lagged_offset, lagged_end, Len(lagged))
                /\ RangeOk(data_start, data_end, Len(data)))
           THEN /\ pc' = "done"
                /\ outcome' = "Panic"
                /\ UNCHANGED <<lagged, lag, sidx>>
           ELSE /\ lagged' = CopyFromSlice(lagged, lagged_offset, data, data_start, lagged_rows)
                /\ sidx' = IF sidx + 1 < num_series THEN sidx + 1 ELSE 0
                /\ lag' = IF sidx + 1 < num_series THEN lag ELSE lag + 1
                /\ UNCHANGED <<pc, outcome>>
    /\ UNCHANGED <<fn, data, layout, lags, fill, stride, row_stride, num_lags, matrix, array, target>>

\* the LagMatrix value the RowMajor branch returns
RowMajorReturn ==
    /\ pc = "rm_loop"
    /\ lag > lags
    /\ pc' = "done"
    /\ outcome' = "Ok"
    /\ matrix' = [data |-> lagged,
                  num_rows |-> series_length,
                  num_cols |-> num_series * (lags + 1),
                  series_length |-> series_length,
                  series_count |-> num_series,
                  num_lags |-> lags + 1,
                  row_stride |-> row_stride,
                  row_major |-> TRUE]
    /\ UNCHANGED <<fn, data, layout, lags, fill, stride, row_stride, lagged, lag, sidx, num_lags>>
    /\ UNCHANGED <<array, target>>

\* one iteration of the seed loop `for lag in 0..=lags` of the ColumnMajor
\* branch; after the last one the shift loop starts at lag 1
ColumnMajorSeed ==
    /\ pc = "cm_seed"
    /\ lag <= lags
    /\ LET exact_offset == SeedOffset(series_length, row_stride, lag, num_series)
           lagged_offset == Wrap(exact_offset)
           lagged_end == Wrap(exact_offset + num_series)
           data_start == SeedDataStart(lags, lag, num_series)
           data_end == (lags - lag + 1) * num_series
       IN  IF ~(/\ ~Checked(exact_offset + num_series)
                /\ RangeOk(lagged_offset, lagged_end, Len(lagged))
                /\ RangeOk(data_start, data_end, Len(data)))
           THEN /\ pc' = "done"
                /\ outcome' = "Panic"
                /\ UNCHANGED <<lagged, lag>>
           ELSE /\ lagged' = CopyFromSlice(lagged, lagged_offset, data, data_start, num_series)
                /\ pc' = IF lag = lags THEN "cm_shift" ELSE "cm_seed"
                /\ lag' = IF lag = lags THEN 1 ELSE lag + 1
                /\ UNCHANGED outcome
    /\ UNCHANGED <<fn, data, layout, lags, fill, stride, row_stride, sidx, num_lags, matrix, array, target>>

\* one iteration of the shift loop `for lag in 1..=lags` of the ColumnMajor
\* branch.  series_length - lag - 1 below zero is an overflow panic in a
\* debug build and, wrapped, a destination past the buffer in a release
\* build: copy_within panics either way.
ColumnMajorShift ==
    /\ pc = "cm_shift"
    /\ lag <= lags
    /\ LET exact_start == (series_length - 1) * row_stride + lag * num_series
           exact_end == exact_start + (lags - lag + 1) * num_series
           data_start == Wrap(exact_start)
           data_end == Wrap(exact_end)
           lagged_offset == Wrap(ShiftOffset(series_length, lag, row_stride))
       IN  IF ~(/\ series_length - lag - 1 >= 0
                /\ ~Checked(exact_end)
                /\ RangeOk(data_start, data_end, Len(lagged))
                /\ RangeOk(lagged_offset, lagged_offset + (data_end - data_start), Len(lagged)))
           THEN /\ pc' = "done"
                /\ outcome' = "Panic"
                /\ UNCHANGED <<lagged, lag>>
           ELSE /\ lagged' = CopyWithin(lagged, data_start, data_end, lagged_offset)
                /\ lag' = lag + 1
                /\ UNCHANGED <<pc, outcome>>
    /\ UNCHANGED <<fn, data, layout, lags, fill, stride, row_stride, sidx, num_lags, matrix, array, target>>

\* the LagMatrix value the ColumnMajor branch returns
ColumnMajorReturn ==
    /\ pc = "cm_shift"
    /\ lag > lags
    /\ pc' = "done"
    /\ outcome' = "Ok"
    /\ matrix' = [data |-> lagged,
                  num_rows |-> series_length,
                  num_cols |-> num_series * (lags + 1),
                  series_length |-> series_length,
                  series_count |-> num_series,
                  num_lags |-> lags + 1,
                  row_stride |-> row_stride,
                  row_major |-> FALSE]
    /\ UNCHANGED <<fn, data, layout, lags, fill, stride, row_stride, lagged, lag, sidx, num_lags>>
    /\ UNCHANGED <<array, target>>

\* ---------------------------------------------------------------------------
\* make_array (src/src/ndarray_support.rs:174-186): the Array1 adapter turns
\* the LagMatrix that lag_matrix returned into an Array2 through ndarray's
\* from_shape_vec and unwraps the result with expect("the shape is valid").

\* Array2::from_shape_vec with a plain shape (standard layout): the product of
\* the dimensions has to equal the length of the vector.
FromShapeVec(rows, cols, len) ==
    IF Fits(rows * cols) /\ rows * cols = len THEN "Ok" ELSE "Panic"

\* The largest offset a (rows, cols) view with strides (row_step, col_step)
\* addresses.
MaxOffset(rows, cols, row_step, col_step) ==
    (IF rows = 0 THEN 0 ELSE (rows - 1) * row_step)
    + (IF cols = 0 THEN 0 ELSE (cols - 1) * col_step)

\* Two elements of the view share a cell: taken in order of increasing stride,
\* an axis longer than one must step over everything the shorter-stride axis
\* covers.
StrideOverlap(rows, cols, row_step, col_step) ==
    IF col_step <= row_step
    THEN (cols > 1 /\ col_step <= 0)
         \/ (rows > 1 /\ row_step <= (IF cols > 1 THEN (cols - 1) * col_step ELSE 0))
    ELSE (rows > 1 /\ row_step <= 0)
         \/ (cols > 1 /\ col_step <= (IF rows > 1 THEN (rows - 1) * row_step ELSE 0))

\* Array2::from_shape_vec with custom strides: the largest addressed offset
\* has to lie inside the vector and the strides must not alias.
FromShapeVecStrided(rows, cols, row_step, col_step, len) ==
    LET max_offset == MaxOffset(rows, cols, row_step, col_step)
        is_empty == rows = 0 \/ cols = 0
    IN  IF ~Fits(rows * cols) \/ ~Fits(max_offset) THEN "Panic"
        ELSE IF is_empty /\ max_offset > len THEN "Panic"
        ELSE IF ~is_empty /\ max_offset >= len THEN "Panic"
        ELSE IF ~is_empty /\ StrideOverlap(rows, cols, row_step, col_step) THEN "Panic"
        ELSE "Ok"

\* The status and the view of the array make_array builds from a LagMatrix.
MakeArrayOf(m) ==
    IF m.row_stride = m.series_length
    THEN [status |-> FromShapeVec(m.series_length, m.num_lags, Len(m.data)),
          rows |-> m.series_length, cols |-> m.num_lags,
          row_step |-> m.num_lags, col_step |-> 1]
    ELSE [status |-> FromShapeVecStrided(m.series_length, m.num_lags,
                                         m.row_stride, 1, Len(m.data)),
          rows |-> m.series_length, cols |-> m.num_lags,
          row_step |-> m.row_stride, col_step |-> 1]

\* Array1::lag_matrix (ndarray_support.rs:92-94): after lag_matrix returned
\* Ok, make_array converts the matrix; an error is passed on by `?` and no
\* array is built.
MakeArray ==
    /\ pc = "done"
    /\ fn = "lag_matrix"
    /\ outcome = "Ok"
    /\ array.status = "none"
    /\ array' = MakeArrayOf(matrix)
    /\ UNCHANGED <<pc, fn, data, layout, lags, fill, stride, row_stride, lagged,
                   lag, sidx, num_lags, outcome, matrix, target>>

Next ==
    \/ LagMatrixCall
    \/ LagMatrixLoop
    \/ LagMatrixReturn
    \/ LagMatrix2dCall
    \/ RowMajorLoop
    \/ RowMajorReturn
    \/ ColumnMajorSeed
    \/ ColumnMajorShift
    \/ ColumnMajorReturn
    \/ MakeArray

Spec == Init /\ [][Next]_vars

\* The same program on a target whose usize is WordBits wide, so that sizes
\* within the bounds of the model reach the end of the machine word.
InitWord ==
    /\ pc = "idle"
    /\ fn = "none"
    /\ data = <<>>
    /\ layout = NoLayout
    /\ lags = 0
    /\ fill = 0
    /\ stride = 0
    /\ row_stride = 0
    /\ lagged = <<>>
    /\ lag = 0
    /\ sidx = 0
    /\ num_lags = 0
    /\ outcome = "none"
    /\ matrix = NoMatrix
    /\ array = NoArray
    /\ usize_bits = WordBits
    /\ overflow_checks \in BOOLEAN

SpecWord == InitWord /\ [][Next]_vars

\* ------------------------------------------------- accessors of LagMatrix
\* LagMatrix::num_rows
NumRows(m) == m.num_rows

\* LagMatrix::num_cols
NumCols(m) == m.num_cols

\* LagMatrix::series_count
SeriesCount(m) == m.series_count

\* LagMatrix::series_length
SeriesLength(m) == m.series_length

\* LagMatrix::num_lags
NumLags(m) == m.num_lags

\* LagMatrix::row_stride
RowStride(m) == m.row_stride

\* LagMatrix::is_row_major
IsRowMajor(m) == m.row_major

\* LagMatrix::is_column_major
IsColumnMajor(m) == ~m.row_major

\* matrix_layout with the two variants exchanged
MatrixLayoutSwapped(m) ==
    IF m.row_major THEN [kind |-> "ColumnMajor", len |-> m.series_length]
    ELSE [kind |-> "RowMajor", len |-> m.series_length]

\* LagMatrix::matrix_layout
MatrixLayout(m) ==
    IF m.row_major THEN [kind |-> "RowMajor", len |-> m.series_length]
    ELSE [kind |-> "ColumnMajor", len |-> m.series_length]

\* ------------------------------------------------------ the claims C1..C10
\* buffer cell of the returned matrix at a 0-based index
Cell(i) == matrix.data[i + 1]

\* the stride a call of lag_matrix_2d works with when its arguments are valid
EffStride2d == IF stride = 0 THEN num_series * lags ELSE stride

Returned1d == fn = "lag_matrix" /\ pc = "done"
Returned2d == fn = "lag_matrix_2d" /\ pc = "done"
ValidShape2d ==
    /\ Len(data) > 0
    /\ lags >= 1
    /\ lags <= series_length
    /\ Len(data) % series_length = 0

\* C1: for a non-empty series of length N, 1 <= lags <= N and a stride that
\* is 0 or >= N, lag_matrix returns a buffer of lags+1 rows of width W
\* (N for stride 0, else stride); row i holds i fill cells, the first N-i
\* elements of the series, and W-N fill cells.
C1_LagMatrixRows ==
    (/\ Returned1d
     /\ Len(data) > 0
     /\ lags >= 1
     /\ lags <= Len(data)
     /\ (stride = 0 \/ stride >= Len(data)))
    => LET N == Len(data)
           W == IF stride = 0 THEN N ELSE stride
       IN  /\ outcome = "Ok"
           /\ Len(matrix.data) = (lags + 1) * W
           /\ \A i \in 0..lags : \A j \in 0..(W - 1) :
                Cell(i * W + j) = IF j >= i /\ j < N THEN data[j - i + 1] ELSE fill

C1_Witness ==
    /\ Returned1d
    /\ outcome = "Ok"
    /\ stride > Len(data)
    /\ lags >= 2
    /\ data[1] # fill
    /\ data[1] # data[2]

\* C2: for RowMajor with valid data and lags and an effective stride >=
\* series_length, the series_length-l cells at l*S*stride + s*stride + l
\* hold the first series_length-l elements of series s, for every lag l and
\* series s, and every other cell of the buffer is fill.
C2_RowMajorBlocks ==
    (/\ Returned2d
     /\ layout.kind = "RowMajor"
     /\ ValidShape2d
     /\ EffStride2d >= series_length)
    => LET S == Len(data) \div series_length
           W == EffStride2d
           InBlock(idx, l, s) == /\ idx >= l * S * W + s * W + l
                                 /\ idx < l * S * W + s * W + series_length
       IN  /\ outcome = "Ok"
           /\ Len(matrix.data) = S * W * (lags + 1)
           /\ \A l \in 0..lags : \A s \in 0..(S - 1) : \A k \in 0..(series_length - l - 1) :
                Cell(l * S * W + s * W + l + k) = data[s * series_length + k + 1]
           /\ \A idx \in 0..(Len(matrix.data) - 1) :
                (\A l \in 0..lags : \A s \in 0..(S - 1) : ~InBlock(idx, l, s))
                => Cell(idx) = fill

C2_Witness ==
    /\ Returned2d
    /\ layout.kind = "RowMajor"
    /\ outcome = "Ok"
    /\ num_series = 2
    /\ lags = 2
    /\ row_stride > series_length
    /\ data[1] # fill
    /\ data[1] # data[2]

\* C3: in every ColumnMajor result, the S cells of lag block l of physical
\* row r hold the S series' values of time step r-l when r >= l, and fill
\* when r < l.
C3_ColumnMajorBlocks ==
    (Returned2d /\ layout.kind = "ColumnMajor" /\ outcome = "Ok")
    => \A r \in 0..(series_length - 1) : \A l \in 0..lags : \A c \in 0..(num_series - 1) :
         Cell(r * matrix.row_stride + l * num_series + c)
           = IF r >= l THEN data[(r - l) * num_series + c + 1] ELSE fill

\* C4: no call of lag_matrix_2d aborts with a panic: it ends with a result
\* or with one of the LagError values.
C4_NoPanic2d ==
    Returned2d => outcome # "Panic"

\* C5: in every result the lag-0 block reproduces the input: the first N
\* cells for lag_matrix, cells [s*stride, s*stride+series_length) for series
\* s in RowMajor, the first S cells of row r for time step r in ColumnMajor.
C5_LagZeroBlock ==
    (pc = "done" /\ outcome = "Ok")
    => IF fn = "lag_matrix"
       THEN \A k \in 0..(Len(data) - 1) : Cell(k) = data[k + 1]
       ELSE IF layout.kind = "RowMajor"
       THEN \A s \in 0..(num_series - 1) : \A k \in 0..(series_length - 1) :
              Cell(s * matrix.row_stride + k) = data[s * series_length + k + 1]
       ELSE \A r \in 0..(series_length - 1) : \A c \in 0..(num_series - 1) :
              Cell(r * matrix.row_stride + c) = data[r * num_series + c + 1]

\* C6: lag_matrix_2d accepts lags == series_length in both layouts: with
\* valid data and a row_stride wide enough for the layout the call returns
\* a result whose block for lag == series_length is all fill and whose
\* smaller lags l have exactly l leading fill cells (RowMajor row) or l
\* leading fill time steps (ColumnMajor block) before the data.
C6_LagsEqualLength ==
    (/\ Returned2d
     /\ ValidShape2d
     /\ lags = series_length
     /\ stride >= series_length
     /\ stride >= num_series * (lags + 1))
    => /\ outcome = "Ok"
       /\ IF layout.kind = "RowMajor"
          THEN \A l \in 0..lags : \A s \in 0..(num_series - 1) : \A j \in 0..(series_length - 1) :
                 Cell(l * num_series * stride + s * stride + j)
                   = IF j < l THEN fill ELSE data[s * series_length + (j - l) + 1]
          ELSE \A l \in 0..lags : \A r \in 0..(series_length - 1) : \A c \in 0..(num_series - 1) :
                 Cell(r * stride + l * num_series + c)
                   = IF r < l THEN fill ELSE data[(r - l) * num_series + c + 1]

\* C7: the buffer of every result is exactly row_stride() times the number
\* of physical rows long: lags+1 rows for lag_matrix, series_count*(lags+1)
\* for RowMajor, series_length for ColumnMajor.
C7_BufferLength ==
    (pc = "done" /\ outcome = "Ok")
    => LET rows == IF fn = "lag_matrix" THEN lags + 1
                   ELSE IF layout.kind = "RowMajor" THEN matrix.series_count * (lags + 1)
                   ELSE matrix.series_length
       IN  /\ Len(matrix.data) = matrix.row_stride * rows
           /\ matrix.row_stride > 0
           /\ Len(matrix.data) % matrix.row_stride = 0

C7_Witness ==
    /\ Returned2d
    /\ layout.kind = "ColumnMajor"
    /\ outcome = "Ok"
    /\ num_series = 2
    /\ matrix.row_stride > num_series * (lags + 1)

\* C8: a call with lags == 0 ends with Err(InvalidLags), whatever the data,
\* the layout, the fill and the stride.
C8_ZeroLags ==
    (pc = "done" /\ lags = 0) => outcome = "InvalidLags"

C8_Witness ==
    /\ Returned2d
    /\ lags = 0
    /\ Len(data) = 0
    /\ layout.len = 0
    /\ outcome = "InvalidLags"

\* C9: a call with an empty data slice and lags >= 1 ends with
\* Err(EmptyData), whatever the stride and the layout.
C9_EmptyData ==
    (pc = "done" /\ Len(data) = 0 /\ lags >= 1) => outcome = "EmptyData"

C9_Witness ==
    /\ Returned1d
    /\ Len(data) = 0
    /\ lags >= 1
    /\ stride > 0
    /\ outcome = "EmptyData"

\* C10: for a non-empty series of length N, lag_matrix ends with
\* Err(LagExceedsValueCount) for every lags > N; lags == N is legal and
\* gives a result whose last row is all fill.
C10_LagsVersusLength ==
    (Returned1d /\ Len(data) > 0)
    => LET N == Len(data)
           W == IF stride = 0 THEN N ELSE stride
       IN  /\ lags > N => outcome = "LagExceedsValueCount"
           /\ lags = N => outcome # "LagExceedsValueCount"
           /\ (lags = N /\ (stride = 0 \/ stride >= N)) =>
                /\ outcome = "Ok"
                /\ \A j \in 0..(W - 1) : Cell(N * W + j) = fill

C10_Witness ==
    /\ Returned1d
    /\ outcome = "Ok"
    /\ lags = Len(data)
    /\ lags >= 2
    /\ \A k \in 1..Len(data) : data[k] # fill

\* ----------------------------------------------------- the claims C11..C20
\* C11: for a non-empty series of length N and 1 <= lags <= N, lag_matrix
\* ends with Err(InvalidStride) for every stride with 0 < stride < N and
\* with a result for stride == 0 and for every stride >= N.
C11_StrideCheck1d ==
    (Returned1d /\ Len(data) > 0 /\ lags >= 1 /\ lags <= Len(data))
    => /\ (stride > 0 /\ stride < Len(data)) => outcome = "InvalidStride"
       /\ (stride = 0 \/ stride >= Len(data)) => outcome = "Ok"

C11_Witness ==
    /\ Returned1d
    /\ Len(data) >= 2
    /\ lags >= 1
    /\ lags <= Len(data)
    /\ stride = Len(data)
    /\ outcome = "Ok"

\* C12: for non-empty data and 1 <= lags <= series_length, lag_matrix_2d
\* ends with Err(InvalidLength) in both layouts exactly when data.len() is
\* not a multiple of the declared series_length, whatever the row_stride.
C12_InvalidLength ==
    (Returned2d /\ Len(data) > 0 /\ lags >= 1 /\ lags <= series_length)
    => (outcome = "InvalidLength" <=> Len(data) % series_length # 0)

C12_Witness ==
    /\ Returned2d
    /\ layout.kind = "ColumnMajor"
    /\ series_length > 0
    /\ Len(data) > series_length
    /\ Len(data) % series_length # 0
    /\ lags >= 1
    /\ outcome = "InvalidLength"

C15_ZeroStrideNoPadding ==
    (Returned2d /\ ValidShape2d /\ stride = 0)
    => /\ outcome = "Ok"
       /\ RowStride(matrix) = IF layout.kind = "RowMajor" THEN series_length
                              ELSE num_series * (lags + 1)

\* C16: for every result of lag_matrix or lag_matrix_2d,
\* num_rows() <= row_stride().
C16_RowsWithinStride ==
    (pc = "done" /\ outcome = "Ok") => NumRows(matrix) <= RowStride(matrix)

\* C17: every result carries the metadata of its call: series_length,
\* series_count == data.len()/series_length, num_lags == lags+1,
\* num_rows == series_length, num_cols == series_count*(lags+1), row_stride
\* the effective stride, the orientation flags and matrix_layout as passed
\* in (RowMajor(N) with one series for lag_matrix).
C17_Metadata ==
    (pc = "done" /\ outcome = "Ok")
    => LET len == IF fn = "lag_matrix" THEN Len(data) ELSE layout.len
           count == IF fn = "lag_matrix" THEN 1 ELSE Len(data) \div len
           eff == IF stride # 0 THEN stride
                  ELSE IF fn = "lag_matrix" THEN Len(data) ELSE count * lags
           rowmajor == fn = "lag_matrix" \/ layout.kind = "RowMajor"
       IN  /\ SeriesLength(matrix) = len
           /\ SeriesCount(matrix) = count
           /\ NumLags(matrix) = lags + 1
           /\ NumRows(matrix) = len
           /\ NumCols(matrix) = count * (lags + 1)
           /\ RowStride(matrix) = eff
           /\ IsRowMajor(matrix) = rowmajor
           /\ IsColumnMajor(matrix) = ~rowmajor
           /\ MatrixLayout(matrix) =
                [kind |-> IF rowmajor THEN "RowMajor" ELSE "ColumnMajor", len |-> len]

C17_Witness ==
    /\ Returned2d
    /\ outcome = "Ok"
    /\ layout.kind = "ColumnMajor"
    /\ num_series = 2
    /\ lags = 1
    /\ MatrixLayout(matrix) = layout
    /\ NumCols(matrix) = 4

\* C19: with lags == series_length - 1 and row_stride >= S*series_length,
\* the ColumnMajor branch returns a result in which block b of row r holds
\* the S input values of time step r-b if b <= r and fill otherwise, and
\* the cells at columns >= S*(lags+1) are fill.
C19_ColumnMajorFullLags ==
    (/\ Returned2d
     /\ layout.kind = "ColumnMajor"
     /\ ValidShape2d
     /\ lags = series_length - 1
     /\ stride >= num_series * series_length)
    => /\ outcome = "Ok"
       /\ Len(matrix.data) = stride * series_length
       /\ \A r \in 0..(series_length - 1) :
            /\ \A b \in 0..lags : \A c \in 0..(num_series - 1) :
                 Cell(r * stride + b * num_series + c)
                   = IF b <= r THEN data[(r - b) * num_series + c + 1] ELSE fill
            /\ \A col \in (num_series * (lags + 1))..(stride - 1) :
                 Cell(r * stride + col) = fill

C19_Witness ==
    /\ Returned2d
    /\ layout.kind = "ColumnMajor"
    /\ outcome = "Ok"
    /\ num_series = 2
    /\ lags = series_length - 1
    /\ stride > num_series * series_length
    /\ data[1] # data[3]
    /\ data[1] # fill

\* C20: in every ColumnMajor result the last physical row is built from the
\* lags+1 most recent time steps in reverse order: block l of the last row
\* holds the S input values of time step series_length-1-l.
C20_LastRowMostRecent ==
    (Returned2d /\ layout.kind = "ColumnMajor" /\ outcome = "Ok")
    => \A l \in 0..lags : \A c \in 0..(num_series - 1) :
         Cell((series_length - 1) * RowStride(matrix) + l * num_series + c)
           = data[(series_length - 1 - l) * num_series + c + 1]

\* ----------------------------------------------------- the claims C21..C28
\* C21: in every ColumnMajor result each row is the row below it shifted
\* left by one S-wide block: block b of row r equals block b+1 of row r+1,
\* for 0 <= r < series_length-1 and 0 <= b < lags.
C21_RowIsShiftOfRowBelow ==
    (Returned2d /\ layout.kind = "ColumnMajor" /\ outcome = "Ok")
    => \A r \in 0..(series_length - 2) : \A b \in 0..(lags - 1) : \A c \in 0..(num_series - 1) :
         Cell(r * RowStride(matrix) + b * num_series + c)
           = Cell((r + 1) * RowStride(matrix) + (b + 1) * num_series + c)

C21_Witness ==
    /\ Returned2d
    /\ layout.kind = "ColumnMajor"
    /\ outcome = "Ok"
    /\ series_length >= 3
    /\ lags >= 2
    /\ data[1] # data[2]
    /\ \A k \in 1..Len(data) : data[k] # fill

\* C22: for every returned result, row_stride() is at least the unpadded
\* row width of its orientation: series_length() for row-major results,
\* series_count()*num_lags() for column-major results.
C22_StrideAtLeastWidth ==
    (pc = "done" /\ outcome = "Ok")
    => RowStride(matrix) >= IF IsRowMajor(matrix) THEN SeriesLength(matrix)
                            ELSE SeriesCount(matrix) * NumLags(matrix)

C22_Witness ==
    /\ Returned2d
    /\ layout.kind = "ColumnMajor"
    /\ outcome = "Ok"
    /\ num_series = 2
    /\ RowStride(matrix) = SeriesCount(matrix) * NumLags(matrix)

\* C23: in every returned result the stride gap holds only fill: every
\* cell whose position in its physical row (index mod row_stride) is >= the
\* unpadded row width equals fill.
C23_StrideGapIsFill ==
    (pc = "done" /\ outcome = "Ok")
    => LET width == IF fn = "lag_matrix" THEN Len(data)
                    ELSE IF layout.kind = "RowMajor" THEN series_length
                    ELSE num_series * (lags + 1)
       IN  \A idx \in 0..(Len(matrix.data) - 1) :
             (idx % RowStride(matrix)) >= width => Cell(idx) = fill

C23_Witness ==
    /\ Returned1d
    /\ outcome = "Ok"
    /\ RowStride(matrix) > Len(data) + 1
    /\ lags >= 2
    /\ \A k \in 1..Len(data) : data[k] # fill

\* C24: when several preconditions are violated at once the error follows
\* the precedence InvalidLags, EmptyData, LagExceedsValueCount,
\* InvalidLength (lag_matrix_2d only), InvalidStride.
C24_ErrorPrecedence ==
    pc = "done"
    => LET len == IF fn = "lag_matrix" THEN Len(data) ELSE layout.len
           badlen == fn = "lag_matrix_2d" /\ Len(data) % len # 0
           eff == IF stride # 0 THEN stride
                  ELSE IF fn = "lag_matrix" THEN Len(data)
                  ELSE (Len(data) \div len) * lags
           badstride == IF fn = "lag_matrix" \/ layout.kind = "RowMajor"
                        THEN eff < len
                        ELSE eff < (Len(data) \div len) * lags
       IN  IF lags = 0 THEN outcome = "InvalidLags"
           ELSE IF Len(data) = 0 THEN outcome = "EmptyData"
           ELSE IF lags > len THEN outcome = "LagExceedsValueCount"
           ELSE IF badlen THEN outcome = "InvalidLength"
           ELSE IF badstride THEN outcome = "InvalidStride"
           ELSE outcome \notin {"InvalidLags", "EmptyData", "LagExceedsValueCount",
                                "InvalidLength", "InvalidStride"}

C24_Witness ==
    /\ Returned2d
    /\ layout.kind = "RowMajor"
    /\ lags >= 1
    /\ lags <= series_length
    /\ Len(data) > series_length
    /\ Len(data) % series_length # 0
    /\ stride > 0
    /\ stride < series_length
    /\ outcome = "InvalidLength"

\* C25: a layout with declared series length 0 never leads to a division
\* by zero: the call ends with InvalidLags, EmptyData or
\* LagExceedsValueCount before data.len() / series_length is evaluated.
C25_NoDivisionByZero ==
    (Returned2d /\ layout.len = 0)
    => /\ outcome \in {"InvalidLags", "EmptyData", "LagExceedsValueCount"}
       /\ (lags >= 1 /\ Len(data) > 0) => outcome = "LagExceedsValueCount"

C25_Witness ==
    /\ Returned2d
    /\ layout.len = 0
    /\ layout.kind = "ColumnMajor"
    /\ Len(data) > 0
    /\ lags = 1
    /\ outcome = "LagExceedsValueCount"

\* C26: for a single series and an explicit stride the two entry points
\* agree: lag_matrix(data, lags, fill, stride) and lag_matrix_2d(data,
\* RowMajor(N), lags, fill, stride) with N = data.len() and stride # 0 end
\* with the same error, or with results equal in buffer and metadata.  The
\* first conjunct ties the whole-call form of lag_matrix to its steps, the
\* second compares lag_matrix_2d with it.
C26_EntryPointsAgree ==
    /\ Returned1d
       => [outcome |-> outcome, matrix |-> matrix] = LagMatrixResult(data, lags, fill, stride)
    /\ (/\ Returned2d
        /\ layout = [kind |-> "RowMajor", len |-> Len(data)]
        /\ stride # 0)
       => [outcome |-> outcome, matrix |-> matrix] = LagMatrixResult(data, lags, fill, stride)

C26_Witness ==
    /\ Returned2d
    /\ layout = [kind |-> "RowMajor", len |-> Len(data)]
    /\ stride > Len(data)
    /\ lags >= 2
    /\ outcome = "Ok"
    /\ data[1] # data[2]
    /\ data[1] # fill
    /\ LagMatrixResult(data, lags, fill, stride).outcome = "Ok"

\* ---------------------------------------------------------------------------
\* C27: for every LagMatrix that lag_matrix returns for a single series, the
\* shape and strides the Array1 adapter hands to from_shape_vec fit the
\* buffer, so expect("the shape is valid") never fails: in the contiguous
\* case series_length * num_lags equals the buffer length, in the strided case
\* the largest addressed index (series_length-1)*row_stride + num_lags-1 is
\* below the buffer length.
C27_ShapeIsValid ==
    (fn = "lag_matrix" /\ array.status # "none") =>
        /\ array.status = "Ok"
        /\ IF RowStride(matrix) = SeriesLength(matrix)
           THEN SeriesLength(matrix) * NumLags(matrix) = Len(matrix.data)
           ELSE (SeriesLength(matrix) - 1) * RowStride(matrix)
                    + NumLags(matrix) - 1 < Len(matrix.data)

\* ---------------------------------------------------------------------------
\* C28: for every input that passes the precondition checks, the size and
\* offset arithmetic stays within the machine word: stride*(lags+1) in
\* lag_matrix, num_series*row_stride*(lags+1) in the RowMajor branch,
\* row_stride*series_length in the ColumnMajor branch are < 2^w, so no product
\* wraps (or trips the overflow check) and the allocated buffer has the
\* length the product denotes.
ExactBufLen ==
    IF fn = "lag_matrix" THEN LagMatrixBufLen(row_stride, lags)
    ELSE IF layout.kind = "RowMajor" THEN RowMajorBufLen(num_series, row_stride, lags)
    ELSE ColumnMajorBufLen(row_stride, series_length)

PassedChecks ==
    /\ pc # "idle"
    /\ outcome \in {"none", "Ok", "Panic"}
    /\ fn = "lag_matrix_2d" => LayoutLen(layout) # 0

C28_ArithmeticWithinWord ==
    PassedChecks =>
        /\ Fits(ExactBufLen)
        /\ pc \in {"lm_loop", "rm_loop", "cm_seed", "cm_shift"} =>
               Len(lagged) = ExactBufLen

====
